---- MODULE Spec2Model ----
(***************************************************************************)
(* Model of the banking chatbot server (src/async-disha.py) and its        *)
(* account directory (src/mock_data_loader.py).                            *)
(*                                                                         *)
(* A turn (one process_message coroutine) runs in atomic segments that are *)
(* separated by its two awaits on the completion service; end_session is a *)
(* single atomic step.  Python values are modelled as follows: a dict is a *)
(* record, None is the string "None", an exception is a record with the    *)
(* single field exc, an unbound local is a record with the field unbound.  *)
(* Every message carries the extra field by, the number of the turn that   *)
(* appended it (0 for the seed message); the code does not store it, it    *)
(* only names the writer of each append.                                   *)
(***************************************************************************)
EXTENDS Integers, Sequences, FiniteSets, TLC

\* ------------------------------------------------------------------ bounds
MaxTurns == 2
MaxToolCalls == 3

\* ------------------------------------------------------------ input sets
Turns == 1..MaxTurns
ToolTurns == {1}
Sessions == {"s1", "s2"}
ToolSessions == {"s1"}
UserInputs == {"hello"}
Texts == {"reply"}
None == "None"

\* ------------------------------------------------- account data (fixture)
MockData ==
    [accounts |->
        [a \in {"12345", "67890"} |->
            IF a = "12345"
            THEN [pin |-> "0000", balance |-> 500, currency |-> "USD",
                  account_type |-> "savings", account_holder |-> "A",
                  account_status |-> "active", last_transaction |-> "d1"]
            ELSE [pin |-> "1111", balance |-> 20, currency |-> "USD",
                  account_type |-> "checking", account_holder |-> "B",
                  account_status |-> "frozen", last_transaction |-> "d2"]],
     account_types |->
        [k \in {"savings"} |->
            [daily_withdrawal_limit |-> 100, minimum_balance |-> 10,
             interest_rate |-> 2, monthly_fee |-> 0]],
     currencies |-> [c \in {"USD"} |-> [symbol |-> "$"]]]

EmptyDict == [k \in {} |-> None]

\* dict.get(key, default)
DictGet(d, k, default) == IF k \in DOMAIN d THEN d[k] ELSE default

\* bool(dict)
Truthy(d) == DOMAIN d # {}

get_account(data, account_number) ==
    DictGet(DictGet(data, "accounts", EmptyDict), account_number, EmptyDict)

get_account_type_details(data, account_type) ==
    DictGet(DictGet(data, "account_types", EmptyDict), account_type, EmptyDict)

get_currency_details(data, currency_code) ==
    DictGet(DictGet(data, "currencies", EmptyDict), currency_code, EmptyDict)

validate_account_and_pin_always(data, account_number, pin) == TRUE

validate_account_and_pin(data, account_number, pin) ==
    DictGet(get_account(data, account_number), "pin", None) = pin

\* the symbol and the amount that the format string joins
get_formatted_balance(data, account_number) ==
    LET account == get_account(data, account_number)
    IN  IF ~Truthy(account)
        THEN [text |-> "Account not found"]
        ELSE [symbol |-> DictGet(get_currency_details(data,
                             DictGet(account, "currency", "USD")), "symbol", "$"),
              amount |-> DictGet(account, "balance", 0)]

\* ------------------------------------------------------------------ tools
validate_account_number(data, account_number) ==
    LET account == get_account(data, account_number)
        is_valid == Truthy(account)
    IN  [valid |-> is_valid,
         message |-> IF is_valid THEN "Account found" ELSE "Account not found",
         account_status |-> IF is_valid
                            THEN DictGet(account, "account_status", None)
                            ELSE None]

validate_pin(data, account_number, pin) ==
    LET is_valid == validate_account_and_pin(data, account_number, pin)
    IN  [valid |-> is_valid,
         message |-> IF is_valid THEN "PIN validated" ELSE "Invalid PIN"]

get_account_balance(data, account_number, pin) ==
    IF ~validate_account_and_pin(data, account_number, pin)
    THEN [status |-> "error", message |-> "Invalid credentials"]
    ELSE LET account == get_account(data, account_number)
         IN  IF ~Truthy(account)
             THEN [status |-> "error", message |-> "Account not found"]
             ELSE LET account_type_details ==
                          get_account_type_details(data, account.account_type)
                  IN  [status |-> "success",
                       data |->
                         [balance |-> account.balance,
                          currency |-> account.currency,
                          account_type |-> account.account_type,
                          formatted_balance |->
                              get_formatted_balance(data, account_number),
                          account_holder |-> account.account_holder,
                          account_status |-> account.account_status,
                          last_transaction |-> account.last_transaction,
                          account_features |->
                            [daily_withdrawal_limit |->
                               DictGet(account_type_details, "daily_withdrawal_limit", None),
                             minimum_balance |->
                               DictGet(account_type_details, "minimum_balance", None),
                             interest_rate |->
                               DictGet(account_type_details, "interest_rate", None),
                             monthly_fee |->
                               DictGet(account_type_details, "monthly_fee", None),
                             term_length |->
                               DictGet(account_type_details, "term_length", None)]]]

\* ------------------------------------------------ completion-service replies
ToolNames == {"validate_account_number", "validate_pin", "get_account_balance"}
UnknownTool == "transfer_funds"

\* tool_call.function.arguments is a JSON text: [json |-> d] is the text of
\* the dict d, [garbage |-> TRUE] a text that is not JSON
CoreArgs == [json |-> [account_number |-> "12345"]]
ToolArgs ==
    {[garbage |-> TRUE],
     [json |-> [account_number |-> "12345"]],
     [json |-> [account_number |-> "12345", pin |-> "0000"]],
     [json |-> [account_number |-> "12345", pin |-> "9999"]],
     [json |-> [account_number |-> "99999", pin |-> "0000"]]}

\* the tool-call lists of the concurrent specification: a known tool, an
\* unknown one, and an unknown one after a known one
CoreFunctions ==
    LET known == [name |-> "validate_account_number", arguments |-> CoreArgs]
        unknown == [name |-> UnknownTool, arguments |-> CoreArgs]
    IN  {<<known>>, <<unknown>>, <<known, unknown>>}
ToolFunctions == [name : ToolNames \cup {UnknownTool}, arguments : ToolArgs]

SeqsUpTo(S, n) == UNION {[1..k -> S] : k \in 1..n}

\* the service numbers the tool calls of one reply
WithIds(fs) == [i \in DOMAIN fs |-> [id |-> i, function |-> fs[i]]]

TextReplies == {[content |-> x, tool_calls |-> <<>>] : x \in Texts}
ToolReplies(functions, n) ==
    {[content |-> None, tool_calls |-> WithIds(fs)] : fs \in SeqsUpTo(functions, n)}

CoreReplies ==
    TextReplies \cup {[content |-> None, tool_calls |-> WithIds(fs)] : fs \in CoreFunctions}
AllToolReplies == TextReplies \cup ToolReplies(ToolFunctions, MaxToolCalls)
\* the continuation reply is text, or asks for tools once more
SecondReplies ==
    TextReplies \cup
    {[content |-> None,
      tool_calls |-> WithIds(<<[name |-> "validate_account_number",
                                arguments |-> CoreArgs]>>)]}

\* ------------------------------------------------------------- exceptions
Raise(kind) == [exc |-> kind]
IsExc(x) == "exc" \in DOMAIN x
Unbound == [unbound |-> TRUE]

json_loads(text) ==
    IF "json" \in DOMAIN text THEN text.json ELSE Raise("JSONDecodeError")

json_dumps(obj) == [json |-> obj]

\* ---------------------------------------------------------- session store
SystemPrompt == "You are a banking assistant"

get_initial_conversation_empty == <<>>

get_initial_conversation ==
    <<[role |-> "system", content |-> SystemPrompt, by |-> 0]>>

Present(conv, sid) == sid \in DOMAIN conv

\* if session_id not in self.conversations: seed it
EnsureSessionAlways(conv, sid) ==
    [s \in DOMAIN conv \cup {sid} |->
        IF s = sid THEN get_initial_conversation ELSE conv[s]]

EnsureSession(conv, sid) ==
    IF ~Present(conv, sid)
    THEN [s \in DOMAIN conv \cup {sid} |->
            IF s = sid THEN get_initial_conversation ELSE conv[s]]
    ELSE conv

\* self.conversations[session_id].append(msg), the session being present
ListAppendShared(conv, sid, msg) == [s \in DOMAIN conv |-> Append(conv[s], msg)]

ListAppend(conv, sid, msg) == [conv EXCEPT ![sid] = Append(@, msg)]

\* ------------------------------------------------- process_message: tools
\* the if/elif chain; an unmatched name leaves function_response as it was
Dispatch(data, function_name, function_args, function_response) ==
    IF function_name = "validate_account_number"
    THEN IF "account_number" \in DOMAIN function_args
         THEN validate_account_number(data, function_args.account_number)
         ELSE Raise("KeyError")
    ELSE IF function_name = "validate_pin"
    THEN IF {"account_number", "pin"} \subseteq DOMAIN function_args
         THEN validate_pin(data, function_args.account_number, function_args.pin)
         ELSE Raise("KeyError")
    ELSE IF function_name = "get_account_balance"
    THEN IF {"account_number", "pin"} \subseteq DOMAIN function_args
         THEN get_account_balance(data, function_args.account_number,
                                  function_args.pin)
         ELSE Raise("KeyError")
    ELSE function_response

ToolCallMessageBare(t, tool_call) ==
    [role |-> "assistant", content |-> None, tool_calls |-> <<>>, by |-> t]

ToolCallMessage(t, tool_call) ==
    [role |-> "assistant", content |-> None, tool_calls |-> <<tool_call>>, by |-> t]

ToolResultMessage(t, tool_call, function_response) ==
    [role |-> "tool", tool_call_id |-> tool_call.id,
     content |-> json_dumps(function_response), by |-> t]

\* the for loop over assistant_message.tool_calls, from its i-th call on;
\* exc is None when the loop ran to its end
RECURSIVE ToolLoop(_, _, _, _, _, _, _)
ToolLoop(data, conv, sid, t, tool_calls, i, function_response) ==
    IF i > Len(tool_calls)
    THEN [conversations |-> conv, exc |-> None]
    ELSE
      LET tool_call == tool_calls[i]
          function_args == json_loads(tool_call.function.arguments)
      IN
      IF IsExc(function_args)
      THEN [conversations |-> conv, exc |-> function_args.exc]
      ELSE
        LET r == Dispatch(data, tool_call.function.name, function_args,
                          function_response)
        IN
        IF IsExc(r)
        THEN [conversations |-> conv, exc |-> r.exc]
        ELSE IF ~Present(conv, sid)
        THEN [conversations |-> conv, exc |-> "KeyError"]
        ELSE
          LET conv1 == ListAppend(conv, sid, ToolCallMessage(t, tool_call))
          IN
          IF "unbound" \in DOMAIN r
          THEN [conversations |-> conv1, exc |-> "UnboundLocalError"]
          ELSE ToolLoop(data,
                        ListAppend(conv1, sid, ToolResultMessage(t, tool_call, r)),
                        sid, t, tool_calls, i + 1, r)

\* ------------------------------------------------------------------ state
VARIABLES
    conversations,      \* chatbot.conversations: session id -> message list
    pc,                 \* where each turn's coroutine stands
    session_id,         \* each turn's session_id argument
    assistant_message,  \* each turn's local assistant_message
    completion_calls,   \* completion-service calls each turn has made: <<first, second>>
    http_response,      \* what chat_endpoint answered for each turn
    delete_log,         \* the last DELETE request and its answer
    stale,              \* turns begun before a deletion of their session
    concurrent,         \* turns in flight on the same session when a turn began
    second_response,    \* each turn's local second_response
    directory,          \* the MockDataLoader under construction or built
    query,              \* the last call made on the built directory
    client              \* the interactive client (BankingBotClient)

vars == <<conversations, pc, session_id, assistant_message, completion_calls,
          http_response, delete_log, stale, concurrent, second_response,
          directory, query, client>>

\* what the server's turns and deletes never touch
offline == <<directory, query, client>>

NoMessage == [content |-> None, tool_calls |-> <<>>]
NoResponse == [status_code |-> 0]
NoDelete == [session_id |-> None, existed |-> FALSE, response |-> NoResponse]
NotConstructed == [state |-> "none"]
NoQuery == [op |-> None]
NotStarted ==
    [loop |-> "not started", session_id |-> None, input |-> None, requests |-> <<>>]

InFlight(t) == pc[t] \in {"await1", "await2"}

Init ==
    /\ conversations = EmptyDict
    /\ pc = [t \in Turns |-> "idle"]
    /\ session_id = [t \in Turns |-> None]
    /\ assistant_message = [t \in Turns |-> NoMessage]
    /\ completion_calls = [t \in Turns |-> <<0, 0>>]
    /\ http_response = [t \in Turns |-> NoResponse]
    /\ delete_log = NoDelete
    /\ stale = {}
    /\ concurrent = [t \in Turns |-> {}]
    /\ second_response = [t \in Turns |-> NoMessage]
    /\ directory = NotConstructed
    /\ query = NoQuery
    /\ client = NotStarted

\* ---------------------------------------------------------- chat_endpoint
\* "returned" is [value |-> text] when process_message returned and
\* [exc |-> kind] when it raised
chat_endpoint_swallow(returned) ==
    IF IsExc(returned)
    THEN [status_code |-> 200, response |-> None]
    ELSE [status_code |-> 200, response |-> returned.value]

chat_endpoint(returned) ==
    IF IsExc(returned)
    THEN [status_code |-> 500, detail |-> returned.exc]
    ELSE [status_code |-> 200, response |-> returned.value]

\* the turn ends: process_message returns or raises and chat_endpoint answers
Finish(t, returned) ==
    /\ pc' = [pc EXCEPT ![t] = IF IsExc(returned) THEN "failed" ELSE "done"]
    /\ http_response' = [http_response EXCEPT ![t] = chat_endpoint(returned)]

\* as FinalAppend, but returning the text without storing it
FinalAppendNoStore(t, assistant_response) ==
    /\ Finish(t, [value |-> assistant_response])
    /\ UNCHANGED conversations

\* as FinalAppend, but creating the session again when it is gone
FinalAppendResurrect(t, assistant_response) ==
    /\ conversations' =
          ListAppend(EnsureSession(conversations, session_id[t]), session_id[t],
                     [role |-> "assistant", content |-> assistant_response,
                      by |-> t])
    /\ Finish(t, [value |-> assistant_response])

\* lines 188-191: append the final assistant message and return its text
FinalAppend(t, assistant_response) ==
    IF ~Present(conversations, session_id[t])
    THEN /\ Finish(t, Raise("KeyError"))
         /\ UNCHANGED conversations
    ELSE /\ conversations' =
              ListAppend(conversations, session_id[t],
                         [role |-> "assistant", content |-> assistant_response,
                          by |-> t])
         /\ Finish(t, [value |-> assistant_response])

\* ------------------------------------------------------- process_message
\* lines 86-95: seed the session if new, append the user message, issue the
\* first completion-service call and suspend
StartTurn(t, sid, user_input) ==
    /\ pc[t] = "idle"
    /\ \A u \in 1..(t - 1) : pc[u] # "idle"    \* turns are numbered by arrival
    /\ conversations' =
          ListAppend(EnsureSession(conversations, sid), sid,
                     [role |-> "user", content |-> user_input, by |-> t])
    /\ pc' = [pc EXCEPT ![t] = "await1"]
    /\ session_id' = [session_id EXCEPT ![t] = sid]
    /\ completion_calls' = [completion_calls EXCEPT ![t] = <<1, 0>>]
    /\ concurrent' = [concurrent EXCEPT ![t] =
                        {u \in DOMAIN pc : InFlight(u) /\ session_id[u] = sid}]
    /\ UNCHANGED <<assistant_message, http_response, delete_log, stale,
                   second_response, offline>>

\* lines 144-191 up to the next suspension: the first call returned "reply"
FirstReply(t, reply) ==
    /\ pc[t] = "await1"
    /\ assistant_message' = [assistant_message EXCEPT ![t] = reply]
    /\ IF reply.tool_calls # <<>>
       THEN LET r == ToolLoop(MockData, conversations, session_id[t], t,
                              reply.tool_calls, 1, Unbound)
            IN  /\ conversations' = r.conversations
                /\ IF r.exc # None
                   THEN /\ Finish(t, Raise(r.exc))
                        /\ UNCHANGED completion_calls
                   ELSE /\ pc' = [pc EXCEPT ![t] = "await2"]
                        /\ completion_calls' =
                              [completion_calls EXCEPT ![t] = <<@[1], @[2] + 1>>]
                        /\ UNCHANGED http_response
       ELSE /\ FinalAppend(t, reply.content)
            /\ UNCHANGED completion_calls
    /\ UNCHANGED <<session_id, delete_log, stale, concurrent, second_response,
                   offline>>

\* as FirstFail, but taking the turn's user message back
FirstFailRollback(t) ==
    /\ pc[t] = "await1"
    /\ Finish(t, Raise("UpstreamError"))
    /\ conversations' =
          IF Present(conversations, session_id[t])
          THEN [conversations EXCEPT ![session_id[t]] = SubSeq(@, 1, Len(@) - 1)]
          ELSE conversations
    /\ UNCHANGED <<session_id, assistant_message,
                   completion_calls, delete_log, stale, concurrent,
                   second_response, offline>>

\* the first completion-service call raised (failure, timeout, bad reply)
FirstFail(t) ==
    /\ pc[t] = "await1"
    /\ Finish(t, Raise("UpstreamError"))
    /\ UNCHANGED <<conversations, session_id, assistant_message,
                   completion_calls, delete_log, stale, concurrent,
                   second_response, offline>>

\* as SecondReply, but running the tool loop on the second reply as well
SecondReplyAgain(t, reply) ==
    /\ pc[t] = "await2"
    /\ second_response' = [second_response EXCEPT ![t] = reply]
    /\ IF ~Present(conversations, session_id[t])
       THEN /\ Finish(t, Raise("KeyError"))
            /\ UNCHANGED conversations
       ELSE LET r == ToolLoop(MockData, conversations, session_id[t], t,
                              reply.tool_calls, 1, Unbound)
            IN  /\ conversations' =
                      ListAppend(r.conversations, session_id[t],
                                 [role |-> "assistant", content |-> reply.content,
                                  by |-> t])
                /\ Finish(t, [value |-> reply.content])
    /\ UNCHANGED <<session_id, assistant_message, completion_calls,
                   delete_log, stale, concurrent, offline>>

\* lines 184-191: the second call returned "reply"; only its content is used
SecondReply(t, reply) ==
    /\ pc[t] = "await2"
    /\ second_response' = [second_response EXCEPT ![t] = reply]
    /\ FinalAppend(t, reply.content)
    /\ UNCHANGED <<session_id, assistant_message, completion_calls,
                   delete_log, stale, concurrent, offline>>

\* the second completion-service call raised
SecondFail(t) ==
    /\ pc[t] = "await2"
    /\ Finish(t, Raise("UpstreamError"))
    /\ UNCHANGED <<conversations, session_id, assistant_message,
                   completion_calls, delete_log, stale, concurrent,
                   second_response, offline>>

\* ------------------------------------------------------------ end_session
end_session_strict(conv, sid) ==
    IF Present(conv, sid)
    THEN [conversations |-> [s \in DOMAIN conv \ {sid} |-> conv[s]],
          response |-> [status_code |-> 200,
                        message |-> "Session ended successfully"]]
    ELSE [conversations |-> conv,
          response |-> [status_code |-> 500, message |-> "KeyError"]]

end_session(conv, sid) ==
    [conversations |->
        IF Present(conv, sid)
        THEN [s \in DOMAIN conv \ {sid} |-> conv[s]]
        ELSE conv,
     response |-> [status_code |-> 200, message |-> "Session ended successfully"]]

EndSession(sid) ==
    LET r == end_session(conversations, sid)
    IN  /\ conversations' = r.conversations
        /\ delete_log' = [session_id |-> sid,
                          existed |-> Present(conversations, sid),
                          response |-> r.response]
        /\ stale' = stale \cup
                      {t \in DOMAIN pc : pc[t] # "idle" /\ session_id[t] = sid}
        /\ UNCHANGED <<pc, session_id, assistant_message, completion_calls,
                       http_response, concurrent, second_response, offline>>

\* --------------------------------------------------------- specifications
\* concurrent turns on two sessions, a small choice of replies
Next ==
    \/ \E t \in Turns, sid \in Sessions, u \in UserInputs : StartTurn(t, sid, u)
    \/ \E t \in Turns, reply \in CoreReplies : FirstReply(t, reply)
    \/ \E t \in Turns : FirstFail(t)
    \/ \E t \in Turns, reply \in TextReplies : SecondReply(t, reply)
    \/ \E t \in Turns : SecondFail(t)
    \/ \E sid \in Sessions : EndSession(sid)

Spec == Init /\ [][Next]_vars

\* one turn on one session, every reply of up to MaxToolCalls tool calls
NextTools ==
    \/ \E t \in ToolTurns, sid \in ToolSessions, u \in UserInputs :
          StartTurn(t, sid, u)
    \/ \E t \in ToolTurns :
          pc[t] = "await1" /\ \E reply \in AllToolReplies : FirstReply(t, reply)
    \/ \E t \in ToolTurns : FirstFail(t)
    \/ \E t \in ToolTurns, reply \in SecondReplies : SecondReply(t, reply)
    \/ \E t \in ToolTurns : SecondFail(t)
    \/ \E sid \in ToolSessions : EndSession(sid)

SpecTools == Init /\ [][NextTools]_vars

\* ------------------------------------------ MockDataLoader construction
\* the fixture with a record that stores no PIN
MockDataNoPin ==
    [MockData EXCEPT !.accounts =
        [a \in DOMAIN MockData.accounts |->
            IF a = "67890"
            THEN [balance |-> 20, currency |-> "USD",
                  account_type |-> "checking", account_holder |-> "B",
                  account_status |-> "frozen", last_transaction |-> "d2"]
            ELSE MockData.accounts[a]]]

EmptyCollections ==
    [accounts |-> EmptyDict, account_types |-> EmptyDict, currencies |-> EmptyDict]

\* what open() and json.load() meet at mock_data_path
FileOf(d) == [open |-> "ok", text |-> [json |-> d]]
FileMissing == [open |-> "FileNotFoundError"]
FileUnreadable == [open |-> "PermissionError"]
FileMalformed == [open |-> "ok", text |-> [garbage |-> TRUE]]
Files ==
    {FileMissing, FileUnreadable, FileMalformed,
     FileOf(MockData), FileOf(MockDataNoPin), FileOf(EmptyDict)}

AccountNumbers == {"12345", "67890", "99999"}
Pins == {"0000", "1111", None}
DirectoryOps ==
    {"get_account", "validate_account_and_pin", "validate_account_number",
     "validate_pin", "get_account_balance"}

\* load_data: only FileNotFoundError is caught
load_data(file) ==
    IF file.open = "FileNotFoundError"
    THEN [data |-> EmptyCollections]
    ELSE IF file.open # "ok"
    THEN Raise(file.open)
    ELSE LET loaded == json_loads(file.text)
         IN  IF IsExc(loaded) THEN loaded ELSE [data |-> loaded]

\* MockDataLoader.__init__, as run by AsyncBankingChatbot.__init__
Construct(file) ==
    /\ directory.state = "none"
    /\ directory' =
          LET r == load_data(file)
          IN  IF IsExc(r)
              THEN [state |-> "aborted", file |-> file, exc |-> r.exc]
              ELSE [state |-> "built", file |-> file, data |-> r.data]
    /\ UNCHANGED <<conversations, pc, session_id, assistant_message,
                   completion_calls, http_response, delete_log, stale,
                   concurrent, second_response, query, client>>

\* one call on the built directory or on a tool over it
Lookup(op, account_number, pin) ==
    /\ directory.state = "built"
    /\ query' =
          [op |-> op, account_number |-> account_number, pin |-> pin,
           result |->
             CASE op = "get_account" ->
                    get_account(directory.data, account_number)
               [] op = "validate_account_and_pin" ->
                    [value |-> validate_account_and_pin(directory.data,
                                                        account_number, pin)]
               [] op = "validate_account_number" ->
                    validate_account_number(directory.data, account_number)
               [] op = "validate_pin" ->
                    validate_pin(directory.data, account_number, pin)
               [] op = "get_account_balance" ->
                    get_account_balance(directory.data, account_number, pin)]
    /\ UNCHANGED <<conversations, pc, session_id, assistant_message,
                   completion_calls, http_response, delete_log, stale,
                   concurrent, second_response, directory, client>>

\* the account directory alone: one construction, then any calls
NextDir ==
    \/ \E file \in Files : Construct(file)
    \/ \E op \in DirectoryOps, a \in AccountNumbers, p \in Pins : Lookup(op, a, p)

SpecDir == Init /\ [][NextDir]_vars

\* ------------------------------------------------- interactive client
MaxClientRequests == 3

\* how an HTTP request of the client ends: status 200, another status, or
\* an exception raised by the connection
Outcomes == {"200", "500", "raise"}
ClientSession == "uuid"

server == <<conversations, pc, session_id, assistant_message, completion_calls,
            http_response, delete_log, stale, concurrent, second_response>>

\* BankingBotClient.end_session: the client after the call, and what the
\* call returned or raised
client_end_session(c, outcome) ==
    IF c.session_id # None
    THEN LET sent == [c EXCEPT !.requests =
                        Append(@, [method |-> "DELETE",
                                   session_id |-> c.session_id,
                                   outcome |-> outcome])]
         IN  IF outcome = "raise"
             THEN [client |-> sent, returned |-> Raise("ClientError")]
             ELSE IF outcome = "200"
             THEN [client |-> [sent EXCEPT !.session_id = None],
                   returned |-> [value |-> TRUE]]
             ELSE [client |-> sent, returned |-> [value |-> FALSE]]
    ELSE [client |-> c, returned |-> [value |-> FALSE]]

\* BankingBotClient.send_message
client_send_message(c, outcome) ==
    IF c.session_id = None
    THEN [client |-> c, returned |-> Raise("ValueError")]
    ELSE LET sent == [c EXCEPT !.requests =
                        Append(@, [method |-> "POST",
                                   session_id |-> c.session_id,
                                   outcome |-> outcome])]
         IN  [client |-> sent,
              returned |-> IF outcome = "raise" THEN Raise("ClientError")
                           ELSE [value |-> outcome]]

\* run_interactive up to the first input(): start_session
ClientStart ==
    /\ client.loop = "not started"
    /\ client' = [client EXCEPT !.loop = "running", !.session_id = ClientSession]
    /\ UNCHANGED <<server, directory, query>>

ClientCanAsk ==
    /\ client.loop = "running"
    /\ Len(client.requests) < MaxClientRequests

\* the user types quit: end_session, then break; an exception raised by
\* end_session is caught by "except Exception" and the loop goes on
ClientQuit(outcome) ==
    /\ ClientCanAsk
    /\ LET r == client_end_session(client, outcome)
       IN  client' = [r.client EXCEPT
                        !.input = "quit",
                        !.loop = IF IsExc(r.returned) THEN "running" ELSE "ended"]
    /\ UNCHANGED <<server, directory, query>>

\* the user types a message: send_message, print; exceptions are caught
ClientSend(outcome) ==
    /\ ClientCanAsk
    /\ client' = [client_send_message(client, outcome).client EXCEPT
                    !.input = "message"]
    /\ UNCHANGED <<server, directory, query>>

\* KeyboardInterrupt at input(): end_session in the handler, then break; an
\* exception raised in the handler leaves run_interactive
ClientInterrupt(outcome) ==
    /\ ClientCanAsk
    /\ LET r == client_end_session(client, outcome)
       IN  client' = [r.client EXCEPT
                        !.input = "interrupt",
                        !.loop = IF IsExc(r.returned) THEN "crashed" ELSE "ended"]
    /\ UNCHANGED <<server, directory, query>>

NextClient ==
    \/ ClientStart
    \/ \E outcome \in Outcomes : ClientQuit(outcome)
    \/ \E outcome \in Outcomes : ClientSend(outcome)
    \/ \E outcome \in Outcomes : ClientInterrupt(outcome)

SpecClient == Init /\ [][NextClient]_vars

\* ----------------------------------------------------- auxiliary notions
Hist(s) == IF s \in DOMAIN conversations THEN conversations[s] ELSE <<>>

IsPrefix(a, b) == Len(a) <= Len(b) /\ \A i \in 1..Len(a) : a[i] = b[i]

\* the first reply of turn t has been handled (lines 144-177 have run)
Replied(t) == pc[t] \in {"await2", "done", "failed"} /\ completion_calls[t][1] = 1
                /\ assistant_message[t] # NoMessage

\* tool messages that turn t appended to the history of its session
ToolMessagesOf(t) ==
    SelectSeq(Hist(session_id[t]), LAMBDA m : m.role = "tool" /\ m.by = t)

SuccessBody == [status_code |-> 200, message |-> "Session ended successfully"]

\* --------------------------------------------------------------- claims

\* C1: calls on the same session are serialized: no history holds two
\* adjacent user messages of which the first was appended by a turn that was
\* still in flight when the turn of the second began.
C1_Serialized ==
    \A s \in DOMAIN conversations :
        \A i \in 1..(Len(conversations[s]) - 1) :
            LET m1 == conversations[s][i]
                m2 == conversations[s][i + 1]
            IN  (m1.role = "user" /\ m2.role = "user")
                    => m1.by \notin concurrent[m2.by]

\* C2: every message of a history was appended by a turn addressed to that
\* session, and a step changes the history (or the presence) of a session
\* only if it is a step of a turn, or a delete, addressed to that session.
C2_Isolation ==
    /\ [](\A s \in DOMAIN conversations :
            \A i \in 1..Len(conversations[s]) :
                LET m == conversations[s][i]
                IN  m.by = 0 \/ session_id[m.by] = s)
    /\ [][\A s \in Sessions :
            (Hist(s)' # Hist(s) \/ ((s \in DOMAIN conversations)' # (s \in DOMAIN conversations)))
                => \/ \E t \in Turns : pc'[t] # pc[t] /\ session_id'[t] = s
                   \/ pc' = pc /\ delete_log'.session_id = s]_vars

\* two turns on distinct sessions are both past their tool phase
C2_Witness ==
    \E t1, t2 \in Turns :
        /\ session_id[t1] = "s1" /\ session_id[t2] = "s2"
        /\ pc[t1] = "await2" /\ pc[t2] = "await2"
        /\ Len(Hist("s1")) >= 4 /\ Len(Hist("s2")) >= 4

\* C3: every stored history starts with the fixed system message and holds
\* exactly one system message.
C3_SingleSystemMessage ==
    \A s \in DOMAIN conversations :
        LET h == conversations[s]
        IN  /\ Len(h) >= 1
            /\ h[1].role = "system"
            /\ h[1].content = SystemPrompt
            /\ Cardinality({i \in 1..Len(h) : h[i].role = "system"}) = 1

\* a session that was deleted, recreated, and has seen a failed turn since
C3_Witness ==
    \E s \in DOMAIN conversations, t \in Turns :
        /\ delete_log.session_id = s /\ delete_log.existed
        /\ session_id[t] = s /\ pc[t] = "failed" /\ t \notin stale
        /\ Len(conversations[s]) >= 3

\* C4: a step that leaves a session in the store only extends its history.
C4_AppendOnly ==
    [][\A s \in Sessions :
          (s \in DOMAIN conversations /\ s \in DOMAIN conversations')
              => IsPrefix(conversations[s], conversations'[s])]_vars

\* two finished turns on one session, never deleted
C4_Witness ==
    \E t1, t2 \in Turns :
        /\ t1 # t2 /\ session_id[t1] = session_id[t2]
        /\ pc[t1] = "done" /\ pc[t2] = "done"
        /\ stale = {}
        /\ Len(Hist(session_id[t1])) >= 5

\* C5: a recreated history holds, after its seed, only messages of turns
\* that began after the deletion.
C5_NoResidue ==
    \A s \in DOMAIN conversations :
        \A i \in 2..Len(conversations[s]) : conversations[s][i].by \notin stale

\* the result of executing a tool call on its own
ExpectedResult(tool_call) ==
    Dispatch(MockData, tool_call.function.name,
             json_loads(tool_call.function.arguments), Unbound)

\* C6: once the second completion-service call is made, the tool messages of
\* the turn are those of the requested calls, in the order requested, each
\* with the id of its call and the result of executing that call.
C6_ToolOrder ==
    \A t \in Turns :
        (completion_calls[t][2] >= 1 /\ t \notin stale)
            => LET tool_calls == assistant_message[t].tool_calls
                   tm == ToolMessagesOf(t)
               IN  /\ Len(tm) = Len(tool_calls)
                   /\ \A i \in 1..Len(tm) :
                        /\ tm[i].tool_call_id = tool_calls[i].id
                        /\ tm[i].content = json_dumps(ExpectedResult(tool_calls[i]))

\* C7: a reply that names a tool outside the closed set makes the turn fail
\* and no tool message answers the unknown request.
C7_UnknownToolFails ==
    \A t \in Turns :
        Replied(t) =>
            \A i \in 1..Len(assistant_message[t].tool_calls) :
                assistant_message[t].tool_calls[i].function.name \notin ToolNames
                    => /\ pc[t] = "failed"
                       /\ http_response[t].status_code = 500
                       /\ \A k \in 1..Len(ToolMessagesOf(t)) :
                            ToolMessagesOf(t)[k].tool_call_id # i

\* C8: every DELETE is answered with the same success body; deleting removes
\* the session and nothing else, and deleting an absent id changes nothing.
C8_DeleteAlwaysSucceeds ==
    /\ delete_log # NoDelete => delete_log.response = SuccessBody
    /\ \A s \in Sessions :
          LET r == end_session(conversations, s)
          IN  /\ r.response = SuccessBody
              /\ DOMAIN r.conversations = DOMAIN conversations \ {s}
              /\ \A o \in DOMAIN r.conversations :
                    r.conversations[o] = conversations[o]
              /\ s \notin DOMAIN conversations => r.conversations = conversations

\* an absent id was deleted while another session is stored
C8_Witness ==
    /\ delete_log.session_id \in Sessions
    /\ ~delete_log.existed
    /\ DOMAIN conversations # {}

\* C9: a failed turn is answered with status 500 and a detail, each of the
\* two completion-service calls is made at most once, and a finished turn
\* makes no further call.
C9_FailureIs500NoRetry ==
    /\ [](\A t \in Turns :
            /\ completion_calls[t][1] <= 1 /\ completion_calls[t][2] <= 1
            /\ pc[t] = "failed"
                  => /\ http_response[t].status_code = 500
                     /\ "detail" \in DOMAIN http_response[t])
    /\ [][\A t \in Turns :
            pc[t] \in {"failed", "done"}
                => /\ pc'[t] = pc[t]
                   /\ completion_calls'[t] = completion_calls[t]
                   /\ http_response'[t] = http_response[t]]_vars

\* one turn failed at its first call and another at its second call
C9_Witness ==
    \E t1, t2 \in Turns :
        /\ pc[t1] = "failed" /\ completion_calls[t1] = <<1, 0>>
        /\ http_response[t1] = [status_code |-> 500, detail |-> "UpstreamError"]
        /\ pc[t2] = "failed" /\ completion_calls[t2] = <<1, 1>>
        /\ http_response[t2] = [status_code |-> 500, detail |-> "UpstreamError"]

\* a tool call that the schema admits: a known name and its required keys
WellFormed(tool_call) ==
    /\ tool_call.function.name \in ToolNames
    /\ "json" \in DOMAIN tool_call.function.arguments
    /\ LET a == tool_call.function.arguments.json
       IN  IF tool_call.function.name = "validate_account_number"
           THEN "account_number" \in DOMAIN a
           ELSE {"account_number", "pin"} \subseteq DOMAIN a

\* the account named by the call is absent, or the PIN given is not its PIN
BadCredentials(tool_call) ==
    LET a == tool_call.function.arguments.json
    IN  \/ a.account_number \notin DOMAIN MockData.accounts
        \/ /\ tool_call.function.name # "validate_account_number"
           /\ MockData.accounts[a.account_number].pin # a.pin

Refusal(result) ==
    \/ "valid" \in DOMAIN result /\ ~result.valid
    \/ "status" \in DOMAIN result /\ result.status = "error"

\* C10: a reply of well-formed calls to the three tools always leads to the
\* second completion-service call (unless the session was deleted
\* meanwhile), and every call with bad credentials is answered by a tool
\* message holding valid = false or status = "error".
C10_BadCredentialsNeverAbort ==
    \A t \in Turns :
        LET tool_calls == assistant_message[t].tool_calls
        IN  (Replied(t) /\ tool_calls # <<>>
                /\ \A i \in 1..Len(tool_calls) : WellFormed(tool_calls[i]))
            => /\ t \notin stale =>
                    /\ completion_calls[t][2] = 1
                    /\ Len(ToolMessagesOf(t)) = Len(tool_calls)
                    /\ \A i \in 1..Len(tool_calls) :
                          BadCredentials(tool_calls[i]) =>
                              /\ ToolMessagesOf(t)[i].tool_call_id = tool_calls[i].id
                              /\ Refusal(ToolMessagesOf(t)[i].content.json)
               /\ completion_calls[t][2] = 0 =>
                    /\ t \in stale
                    /\ http_response[t] = [status_code |-> 500, detail |-> "KeyError"]

\* a turn whose calls all carry bad credentials awaits its second reply
C10_Witness ==
    \E t \in Turns :
        LET tool_calls == assistant_message[t].tool_calls
        IN  /\ pc[t] = "await2" /\ t \notin stale
            /\ Len(tool_calls) = 3
            /\ \A i \in 1..3 : WellFormed(tool_calls[i]) /\ BadCredentials(tool_calls[i])
            /\ \E i, j \in 1..3 :
                  /\ tool_calls[i].function.name = "validate_pin"
                  /\ tool_calls[j].function.name = "get_account_balance"

\* the accounts collection of a loaded data dict
AccountsOf(data) == IF "accounts" \in DOMAIN data THEN data.accounts ELSE EmptyDict

\* the record of account_number exists and its stored PIN is pin
StoredPinIs(data, account_number, pin) ==
    /\ account_number \in DOMAIN AccountsOf(data)
    /\ "pin" \in DOMAIN AccountsOf(data)[account_number]
    /\ AccountsOf(data)[account_number].pin = pin

\* C11: validate_account_and_pin is true exactly when the account exists and
\* its stored PIN equals the given pin; false for every pin (None too) given
\* for an absent account or for a record without a PIN.
C11_ValidateIff ==
    query.op = "validate_account_and_pin"
        => query.result.value =
              StoredPinIs(directory.data, query.account_number, query.pin)

\* C12: get_account_balance with a pin that is not the stored PIN answers
\* status "error" without a data field; data comes only with "success".
C12_NoDataWithoutPin ==
    query.op = "get_account_balance"
        => /\ ~StoredPinIs(directory.data, query.account_number, query.pin)
                => /\ query.result.status = "error"
                   /\ "data" \notin DOMAIN query.result
           /\ "data" \in DOMAIN query.result => query.result.status = "success"

\* C13: whatever is wrong with the data file, construction completes with
\* empty collections, and every lookup then finds no account.
C13_LoadFailureGivesEmpty ==
    /\ directory.state # "none" => directory.state = "built"
    /\ (directory.state = "built" /\ "json" \notin DOMAIN DictGet(directory.file, "text", EmptyDict))
          => /\ directory.data = EmptyCollections
             /\ \A a \in AccountNumbers : ~Truthy(get_account(directory.data, a))

\* assistant tool-call messages and tool messages that turn t appended
ToolPhaseOf(t) ==
    SelectSeq(Hist(session_id[t]),
              LAMBDA m : m.by = t /\ (m.role = "tool" \/ "tool_calls" \in DOMAIN m))

\* the turn has issued its continuation call and its session was not deleted
Continued(t) ==
    /\ completion_calls[t][2] >= 1
    /\ t \notin stale
    /\ assistant_message[t].tool_calls # <<>>

\* C14 as stated: a reply with k requests adds one assistant message, with
\* null content and the whole request list, and k tool messages.
C14_OneAssistantMessage ==
    \A t \in Turns :
        Continued(t) =>
            LET tool_calls == assistant_message[t].tool_calls
                ph == ToolPhaseOf(t)
            IN  /\ Len(ph) = 1 + Len(tool_calls)
                /\ ph[1].role = "assistant"
                /\ ph[1].content = None
                /\ ph[1].tool_calls = tool_calls
                /\ \A i \in 1..Len(tool_calls) : ph[1 + i].role = "tool"

\* C14 (amended): a reply with k requests adds k assistant messages, the
\* i-th with null content and the i-th request alone, each followed at once
\* by the tool message with the id of that request.
C14_AssistantPerCall ==
    \A t \in Turns :
        Continued(t) =>
            LET tool_calls == assistant_message[t].tool_calls
                ph == ToolPhaseOf(t)
            IN  /\ Len(ph) = 2 * Len(tool_calls)
                /\ \A i \in 1..Len(tool_calls) :
                      /\ ph[2 * i - 1].role = "assistant"
                      /\ ph[2 * i - 1].content = None
                      /\ ph[2 * i - 1].tool_calls = <<tool_calls[i]>>
                      /\ ph[2 * i].role = "tool"
                      /\ ph[2 * i].tool_call_id = tool_calls[i].id

\* a reply with three requests has been handled
C14_Witness ==
    \E t \in Turns :
        /\ Continued(t) /\ pc[t] = "await2"
        /\ Len(assistant_message[t].tool_calls) = 3
        /\ Len(ToolPhaseOf(t)) = 6

\* C15: in every history each assistant message with tool-call requests is
\* followed at once by the tool messages of all its requests, and each tool
\* message comes right after the requests of such an assistant message.
C15_NoDangling ==
    \A s \in DOMAIN conversations :
        LET h == conversations[s]
        IN  \A i \in 1..Len(h) :
              /\ "tool_calls" \in DOMAIN h[i] =>
                    \A j \in 1..Len(h[i].tool_calls) :
                        /\ i + j <= Len(h)
                        /\ h[i + j].role = "tool"
                        /\ h[i + j].tool_call_id = h[i].tool_calls[j].id
              /\ h[i].role = "tool" =>
                    \E k \in 1..(i - 1) :
                        /\ "tool_calls" \in DOMAIN h[k]
                        /\ i - k <= Len(h[k].tool_calls)
                        /\ h[k].tool_calls[i - k].id = h[i].tool_call_id

\* C16 as stated: a turn none of whose completion-service calls raised ends
\* in Done, after one call if the first reply asked for no tools and after
\* two if it did.
C16_AlwaysDone ==
    \A t \in Turns :
        (pc[t] \in {"done", "failed"}
            /\ http_response[t] # [status_code |-> 500, detail |-> "UpstreamError"])
        => /\ pc[t] = "done"
           /\ completion_calls[t] =
                 IF assistant_message[t].tool_calls = <<>> THEN <<1, 0>> ELSE <<1, 1>>

\* C16 (amended): a turn that ends in Done made one completion-service call
\* if its first reply asked for no tools and two if it did; a failed turn
\* made no more calls than that; the turn runs at most one round of tools,
\* and tool calls asked for by the second reply are not executed.
C16_CallsPerTurn ==
    \A t \in Turns :
        LET tool_calls == assistant_message[t].tool_calls
        IN  /\ pc[t] = "done" =>
                  completion_calls[t] =
                      IF tool_calls = <<>> THEN <<1, 0>> ELSE <<1, 1>>
            /\ pc[t] = "failed" =>
                  /\ completion_calls[t] \in {<<1, 0>>, <<1, 1>>}
                  /\ completion_calls[t] = <<1, 1>> => tool_calls # <<>>
            /\ t \notin stale =>
                  /\ Len(ToolMessagesOf(t)) <= Len(tool_calls)
                  /\ (pc[t] = "done" /\ tool_calls # <<>>) =>
                        LET h == Hist(session_id[t])
                        IN  /\ Len(ToolMessagesOf(t)) = Len(tool_calls)
                            /\ h[Len(h)] = [role |-> "assistant",
                                            content |-> second_response[t].content,
                                            by |-> t]

\* a finished turn whose second reply asked for tools again
C16_Witness ==
    \E t \in Turns :
        /\ pc[t] = "done" /\ t \notin stale
        /\ completion_calls[t] = <<1, 1>>
        /\ second_response[t].tool_calls # <<>>
        /\ Len(ToolMessagesOf(t)) = 3

\* all messages that turn t appended to the history of its session
MessagesOf(t) == SelectSeq(Hist(session_id[t]), LAMBDA m : m.by = t)

\* no other turn on the session of t was in flight together with t, and the
\* session was not deleted since t began
NonOverlapping(t) ==
    /\ concurrent[t] = {}
    /\ \A u \in Turns : t \notin concurrent[u]
    /\ t \notin stale

\* C17: when a turn that overlapped no other turn or delete on its session
\* completes, the last message of the history is the assistant message with
\* the text returned: the first reply's text if no tools were requested, the
\* second reply's text otherwise; without tools the turn has appended just
\* its user message and that assistant message.
C17_FinalMessage ==
    [][\A t \in Turns :
          (pc[t] # "done" /\ pc'[t] = "done" /\ NonOverlapping(t))
          => LET h == Hist(session_id[t])'
                 mine == MessagesOf(t)'
                 tool_calls == assistant_message'[t].tool_calls
                 text == IF tool_calls = <<>>
                         THEN assistant_message'[t].content
                         ELSE second_response'[t].content
             IN  /\ http_response'[t] = [status_code |-> 200, response |-> text]
                 /\ Len(h) >= 2
                 /\ h[Len(h)] = [role |-> "assistant", content |-> text, by |-> t]
                 /\ tool_calls = <<>> =>
                       /\ Len(mine) = 2
                       /\ mine[1].role = "user" /\ mine[1] = h[Len(h) - 1]
                       /\ mine[2] = h[Len(h)]]_vars

\* two turns, one after the other on one session, one with tools and one
\* without, have both completed
C17_Witness ==
    \E t1, t2 \in Turns :
        /\ t1 # t2 /\ session_id[t1] = session_id[t2]
        /\ pc[t1] = "done" /\ pc[t2] = "done"
        /\ NonOverlapping(t1) /\ NonOverlapping(t2)
        /\ assistant_message[t1].tool_calls = <<>>
        /\ assistant_message[t2].tool_calls # <<>>
        /\ Len(MessagesOf(t1)) = 2

\* turn t failed because its first completion-service call raised
FailedAtFirst(t) ==
    /\ pc[t] = "failed"
    /\ completion_calls[t] = <<1, 0>>
    /\ http_response[t] = [status_code |-> 500, detail |-> "UpstreamError"]

\* C19: the start of a turn changes the store by the creation of its session
\* (if new) and the append of its user message only; a failure of the first
\* call leaves the store as it is, so the user message stays, and the next
\* turn on the session puts a second user message right after it.
C19_FailedTurnNotRolledBack ==
    /\ [][\A t \in Turns, sid \in Sessions :
            (pc[t] = "idle" /\ pc'[t] = "await1" /\ session_id'[t] = sid)
            => LET h == Hist(sid)'
               IN  /\ \A s \in Sessions \ {sid} :
                         /\ Hist(s)' = Hist(s)
                         /\ (s \in DOMAIN conversations)' = (s \in DOMAIN conversations)
                   /\ SubSeq(h, 1, Len(h) - 1) =
                         IF sid \in DOMAIN conversations
                         THEN conversations[sid] ELSE get_initial_conversation
                   /\ h[Len(h)].role = "user" /\ h[Len(h)].by = t]_vars
    /\ [][\A t \in Turns :
            (pc[t] = "await1" /\ pc'[t] = "failed" /\ FailedAtFirst(t)')
            => conversations' = conversations]_vars
    /\ [](\A t \in Turns :
            (FailedAtFirst(t) /\ t \notin stale)
            => /\ Len(MessagesOf(t)) = 1
               /\ MessagesOf(t)[1].role = "user")
    /\ [][\A t, u \in Turns :
            LET h == Hist(session_id[t])
                g == Hist(session_id[t])'
            IN  (/\ FailedAtFirst(t) /\ t \notin stale
                 /\ Len(h) >= 1 /\ h[Len(h)].by = t
                 /\ pc[u] = "idle" /\ pc'[u] = "await1"
                 /\ session_id'[u] = session_id[t])
                => /\ Len(g) = Len(h) + 1
                   /\ g[Len(g) - 1].role = "user" /\ g[Len(g) - 1].by = t
                   /\ g[Len(g)].role = "user" /\ g[Len(g)].by = u]_vars

\* a later turn has put its user message right after that of a turn that
\* failed at its first call
C19_Witness ==
    \E t, u \in Turns :
        /\ FailedAtFirst(t) /\ t \notin stale /\ t \notin concurrent[u]
        /\ session_id[u] = session_id[t] /\ u # t
        /\ LET h == Hist(session_id[t])
           IN  \E i \in 1..(Len(h) - 1) :
                  /\ h[i].role = "user" /\ h[i].by = t
                  /\ h[i + 1].role = "user" /\ h[i + 1].by = u

\* C20: a step of a turn in flight never adds a session to the store, and
\* when the session of the turn is gone the step changes nothing in the
\* store and ends the turn with status 500.
C20_NoResurrection ==
    [][\A t \in Turns :
          (InFlight(t) /\ pc'[t] # pc[t])
          => /\ DOMAIN conversations' = DOMAIN conversations
             /\ session_id[t] \notin DOMAIN conversations
                   => /\ conversations' = conversations
                      /\ pc'[t] = "failed"
                      /\ http_response'[t].status_code = 500]_vars

\* a turn whose session was deleted under it has failed on its append
C20_Witness ==
    \E t \in Turns :
        /\ pc[t] = "failed" /\ t \in stale
        /\ completion_calls[t] = <<1, 1>>
        /\ http_response[t] = [status_code |-> 500, detail |-> "KeyError"]
        /\ session_id[t] \notin DOMAIN conversations

\* C18: a quit command, and likewise an interrupt, issues the DELETE for the
\* client's session id and ends the input loop, however the DELETE ends.
C18_QuitAlwaysEnds ==
    [][(client' # client /\ client'.input \in {"quit", "interrupt"})
          => /\ Len(client'.requests) = Len(client.requests) + 1
             /\ LET sent == client'.requests[Len(client'.requests)]
                IN  sent.method = "DELETE" /\ sent.session_id = client.session_id
             /\ client'.loop # "running"]_vars

====
